---- MODULE Spec2Model ----
(***************************************************************************)
(* A model of saracen/grpcweb (grpcweb.go): the dispatcher RootHandler,    *)
(* the classifiers IsGRPCWebRequest / IsGRPCRequest, the request           *)
(* transcoding and trailer emission of grpcWebHandler.ServeHTTP, and the   *)
(* response wrapper gRPCWebResponseWriter with its lazily installed        *)
(* base64 encoder.                                                         *)
(*                                                                         *)
(* Strings are TLA+ strings (compared exactly, as Go compares them); byte  *)
(* streams are sequences of numbers 0..255.  Header collections are        *)
(* functions from the keys present to the list of values under each key,   *)
(* as Go's http.Header (map[string][]string).                              *)
(***************************************************************************)
EXTENDS Integers, Sequences, FiniteSets, TLC

VARIABLES
    pc,         \* where the request is: "root", "bridge", "handler", "grpc",
                \* "fallback", "passthrough", "finalize", "done"
    req,        \* the Request Envelope: ProtoMajor, ProtoMinor, Header, Body
                \* (decoder: wrapped in a base64 decoder; raw: the bytes the
                \* client sent; read: what the handler got by reading it)
    resp,       \* the gRPCWebResponseWriter and the sink it wraps
    invoked,    \* how often each handler has been invoked for this request
    wlog,       \* the calls made on the wrapper's Write, with their caller
    ops,        \* how many calls the wrapped handler has made so far
    concurrent, \* the calls of ServeHTTP under way at the same time on one
                \* grpcWebHandler, with their wrappers and sinks (used where
                \* two requests are served at once)
    gor         \* the goroutines of the wrapped handler inside Write and
                \* Flush (used where the handler calls them concurrently)

vars == <<pc, req, resp, invoked, wlog, ops, concurrent, gor>>

----------------------------------------------------------------------------
(* Bounds of the model *)

\* the number of calls (Write, WriteHeader, Flush, header changes) the wrapped
\* handler makes before it returns
MaxOps == 3

----------------------------------------------------------------------------
(* Characters and strings *)

\* the printable ASCII characters in code order: code 32 (space) to 95 (_),
\* and code 97 (a) to 126 (~)
PrintableLow ==
    " !\"#$%&'()*+,-./0123456789:;<=>?@ABCDEFGHIJKLMNOPQRSTUVWXYZ[\\]^_"

PrintableHigh == "abcdefghijklmnopqrstuvwxyz{|}~"

CharAt(s, i) == SubSeq(s, i, i)

\* the ASCII code of each character
OrdTable ==
    [c \in {CharAt(PrintableLow, i) : i \in 1..Len(PrintableLow)}
             \cup {CharAt(PrintableHigh, i) : i \in 1..Len(PrintableHigh)} |->
        IF \E i \in 1..Len(PrintableLow) : CharAt(PrintableLow, i) = c
        THEN 31 + (CHOOSE i \in 1..Len(PrintableLow) : CharAt(PrintableLow, i) = c)
        ELSE 96 + (CHOOSE i \in 1..Len(PrintableHigh) : CharAt(PrintableHigh, i) = c)]

Ord(c) == OrdTable[c]

\* the character of an ASCII code
Chr(n) ==
    IF n < 96 THEN CharAt(PrintableLow, n - 31) ELSE CharAt(PrintableHigh, n - 96)

\* []byte(s)
Bytes(s) == [i \in 1..Len(s) |-> Ord(CharAt(s, i))]

IsLower(c) == Ord(c) \in 97..122
IsUpper(c) == Ord(c) \in 65..90
ToUpperChar(c) == IF IsLower(c) THEN Chr(Ord(c) - 32) ELSE c
ToLowerChar(c) == IF IsUpper(c) THEN Chr(Ord(c) + 32) ELSE c

RECURSIVE ToLowerFrom(_, _)
ToLowerFrom(s, i) ==
    IF i > Len(s) THEN "" ELSE ToLowerChar(CharAt(s, i)) \o ToLowerFrom(s, i + 1)

\* strings.ToLower
ToLower(s) == ToLowerFrom(s, 1)

\* strings.HasPrefix
HasPrefix(s, prefix) ==
    Len(s) >= Len(prefix) /\ SubSeq(s, 1, Len(prefix)) = prefix

RECURSIVE CanonicalFrom(_, _, _)
CanonicalFrom(s, i, upper) ==
    IF i > Len(s) THEN ""
    ELSE LET c == CharAt(s, i)
         IN  (IF upper THEN ToUpperChar(c) ELSE ToLowerChar(c))
                 \o CanonicalFrom(s, i + 1, c = "-")

\* textproto.CanonicalMIMEHeaderKey, which http.Header's Get, Set, Add and
\* Del apply to the key they are given: the first letter and every letter
\* after a hyphen in upper case, the others in lower case (the keys of this
\* model are all valid header tokens)
CanonicalMIMEHeaderKey(s) == CanonicalFrom(s, 1, TRUE)

----------------------------------------------------------------------------
(* The package's constants *)

ContentTypeGRPC             == "application/grpc"
ContentTypeGRPCWeb          == "application/grpc-web"
ContentTypeGRPCWebProto     == "application/grpc-web+proto"
ContentTypeGRPCWebText      == "application/grpc-web-text"
ContentTypeGRPCWebTextProto == "application/grpc-web-text+proto"

headerContentType        == "content-type"
headerContentLength      == "content-length"
headerTE                 == "te"
headerGRPCAcceptEncoding == "grpc-accept-encoding"
headerAccept             == "accept"
headerTrailer            == "trailer"

----------------------------------------------------------------------------
(* http.Header *)

\* Header.Get: the first value under the canonical form of key, "" if none
HeaderGet(h, key) ==
    LET k == CanonicalMIMEHeaderKey(key)
    IN  IF k \in DOMAIN h /\ Len(h[k]) > 0 THEN h[k][1] ELSE ""

\* Header.Set: the canonical form of key now holds the single value
HeaderSet(h, key, value) ==
    LET k == CanonicalMIMEHeaderKey(key)
    IN  [x \in DOMAIN h \cup {k} |-> IF x = k THEN <<value>> ELSE h[x]]

\* Header.Add: value is appended to the values under the canonical form of key
HeaderAdd(h, key, value) ==
    LET k == CanonicalMIMEHeaderKey(key)
    IN  [x \in DOMAIN h \cup {k} |->
            IF x = k
            THEN (IF k \in DOMAIN h THEN h[k] ELSE <<>>) \o <<value>>
            ELSE h[x]]

\* Header.Del: the canonical form of key is removed
HeaderDel(h, key) ==
    LET k == CanonicalMIMEHeaderKey(key)
    IN  [x \in DOMAIN h \ {k} |-> h[x]]

\* make(http.Header)
EmptyHeader == [x \in {} |-> <<>>]

----------------------------------------------------------------------------
(* The classifiers *)

\* IsGRPCWebRequest with a prefix test in place of the four exact cases
IsGRPCWebRequestByPrefix(r) ==
    HasPrefix(HeaderGet(r.Header, headerContentType), ContentTypeGRPCWeb)

IsGRPCWebRequest(r) ==
    LET ct == HeaderGet(r.Header, headerContentType)
    IN  CASE ct = ContentTypeGRPCWeb          -> TRUE
          [] ct = ContentTypeGRPCWebProto     -> TRUE
          [] ct = ContentTypeGRPCWebText      -> TRUE
          [] ct = ContentTypeGRPCWebTextProto -> TRUE
          [] OTHER                            -> FALSE

\* IsGRPCRequest without the test of the protocol version
IsGRPCRequestAnyVersion(r) ==
    HasPrefix(HeaderGet(r.Header, headerContentType), ContentTypeGRPC)

\* IsGRPCRequest with an exact comparison in place of the prefix test
IsGRPCRequestExactType(r) ==
    r.ProtoMajor = 2 /\ HeaderGet(r.Header, headerContentType) = ContentTypeGRPC

IsGRPCRequest(r) ==
    r.ProtoMajor = 2
        /\ HasPrefix(HeaderGet(r.Header, headerContentType), ContentTypeGRPC)

----------------------------------------------------------------------------
(* encoding/base64, StdEncoding: the streaming encoder *)

\* the ASCII code of the StdEncoding character of a 6-bit value
EncodeChar(v) ==
    IF v < 26 THEN 65 + v
    ELSE IF v < 52 THEN 97 + (v - 26)
    ELSE IF v < 62 THEN 48 + (v - 52)
    ELSE IF v = 62 THEN 43
    ELSE 47

\* '='
PadChar == Ord("=")

\* three bytes as four characters
EncodeQuantum(b1, b2, b3) ==
    << EncodeChar(b1 \div 4),
       EncodeChar((b1 % 4) * 16 + b2 \div 16),
       EncodeChar((b2 % 16) * 4 + b3 \div 64),
       EncodeChar(b3 % 64) >>

\* one or two remaining bytes as four characters, padded
EncodeRemainder(b) ==
    IF Len(b) = 1
    THEN << EncodeChar(b[1] \div 4), EncodeChar((b[1] % 4) * 16), PadChar, PadChar >>
    ELSE << EncodeChar(b[1] \div 4),
            EncodeChar((b[1] % 4) * 16 + b[2] \div 16),
            EncodeChar((b[2] % 16) * 4),
            PadChar >>

RECURSIVE Encode(_)
\* Encoding.Encode
Encode(b) ==
    IF Len(b) = 0 THEN <<>>
    ELSE IF Len(b) < 3 THEN EncodeRemainder(b)
    ELSE EncodeQuantum(b[1], b[2], b[3]) \o Encode(SubSeq(b, 4, Len(b)))

----------------------------------------------------------------------------
(* The response sink: the http.ResponseWriter the bridge was given.  Every *)
(* call it receives is recorded with the content-type its header           *)
(* collection holds at that moment.  r.writesLeft is the number of Write   *)
(* calls the sink still accepts before its connection is gone (-1: any     *)
(* number); a Write it does not accept returns an error.  r.ret is the     *)
(* error the latest Write returned to its caller.                          *)

\* the error of a Write on a connection that is gone
SinkError == "broken pipe"

SinkCall(r, op, data, code) ==
    [r EXCEPT !.calls = Append(@, [op |-> op, data |-> data, code |-> code,
                 contentType |-> HeaderGet(r.header, headerContentType),
                 err |-> IF op = "Write" /\ r.writesLeft = 0
                         THEN SinkError ELSE "nil"])]

SinkWrite(r, p) ==
    [SinkCall(r, "Write", p, 0) EXCEPT
        !.ret        = IF r.writesLeft = 0 THEN SinkError ELSE "nil",
        !.writesLeft = IF @ > 0 THEN @ - 1 ELSE @]
SinkWriteHeader(r, statusCode) == SinkCall(r, "WriteHeader", <<>>, statusCode)
SinkFlush(r) == SinkCall(r, "Flush", <<>>, 0)
SinkClose(r) == SinkCall(r, "Close", <<>>, 0)

----------------------------------------------------------------------------
(* base64.NewEncoder(base64.StdEncoding, w.wrapped): r.buf is the encoder's *)
(* buf[:nbuf], the bytes it holds back until a quantum is complete, and     *)
(* r.encErr its err, the error of the first write to the sink that failed   *)

RECURSIVE EncoderInterior(_, _)
\* the encoder's "large interior chunks" loop: whole quanta of p, at most
\* len(e.out)/4*3 bytes per write to the sink
EncoderInterior(r, p) ==
    IF Len(p) < 3 THEN [r EXCEPT !.buf = p, !.ret = "nil"]
    ELSE LET most == (1024 \div 4) * 3
             nn   == IF most > Len(p) THEN Len(p) - (Len(p) % 3) ELSE most
             r1   == SinkWrite(r, Encode(SubSeq(p, 1, nn)))
         IN  IF r1.ret # "nil" THEN [r1 EXCEPT !.encErr = r1.ret]
             ELSE EncoderInterior(r1, SubSeq(p, nn + 1, Len(p)))

\* (*encoder).Write
EncoderWrite(r, p) ==
    IF r.encErr # "nil" THEN [r EXCEPT !.ret = r.encErr]
    ELSE IF Len(r.buf) > 0
    THEN LET take   == IF Len(p) < 3 - Len(r.buf) THEN Len(p) ELSE 3 - Len(r.buf)
             filled == r.buf \o SubSeq(p, 1, take)
             r1     == SinkWrite([r EXCEPT !.buf = filled], Encode(filled))
         IN  IF Len(filled) < 3
             THEN [r EXCEPT !.buf = filled, !.ret = "nil"]
             ELSE IF r1.ret # "nil" THEN [r1 EXCEPT !.encErr = r1.ret]
             ELSE EncoderInterior([r1 EXCEPT !.buf = <<>>], SubSeq(p, take + 1, Len(p)))
    ELSE EncoderInterior(r, p)

\* (*encoder).Close; Flush drops the error it returns
EncoderClose(r) ==
    IF r.encErr = "nil" /\ Len(r.buf) > 0
    THEN LET r1 == SinkWrite(r, Encode(r.buf))
         IN  [r1 EXCEPT !.buf = <<>>, !.encErr = r1.ret, !.ret = r.ret]
    ELSE r

----------------------------------------------------------------------------
(* gRPCWebResponseWriter *)

\* &gRPCWebResponseWriter{wrapped: resp, contentType: contentType}
NewResponseWriter(r, contentType) ==
    [r EXCEPT !.encoder = "nil", !.buf = <<>>, !.contentType = contentType]

\* the encoder installed by the first Write
InstallEncoder(r) ==
    [r EXCEPT !.header  = HeaderSet(@, headerContentType, r.contentType),
              !.encoder = IF r.contentType = ContentTypeGRPCWebTextProto
                          THEN "base64" ELSE "wrapped",
              !.buf     = <<>>,
              !.encErr  = "nil"]

\* (*gRPCWebResponseWriter).Write
Write(r, p) ==
    LET r1 == IF r.encoder = "nil" THEN InstallEncoder(r) ELSE r
    IN  IF r1.encoder = "base64" THEN EncoderWrite(r1, p) ELSE SinkWrite(r1, p)

\* (*gRPCWebResponseWriter).WriteHeader
WriteHeader(r, statusCode) ==
    SinkWriteHeader(
        [r EXCEPT !.header = HeaderSet(@, headerContentType, r.contentType)],
        statusCode)

\* w.encoder.(io.WriteCloser): the base64 encoder is one; the sink is one
\* when it has a Close method; a nil encoder is not
IsWriteCloser(r) ==
    \/ r.encoder = "base64"
    \/ r.encoder = "wrapped" /\ r.closer

\* Flush that passes the flush on and leaves the encoder as it is
FlushKeepEncoder(r) == SinkFlush(r)

\* (*gRPCWebResponseWriter).Flush
Flush(r) ==
    LET r1 == IF IsWriteCloser(r)
              THEN [(IF r.encoder = "base64" THEN EncoderClose(r) ELSE SinkClose(r))
                        EXCEPT !.encoder = "nil"]
              ELSE r
    IN  SinkFlush(r1)

----------------------------------------------------------------------------
(* Header.Write: the serialization of the trailer block *)

RECURSIVE StrLessFrom(_, _, _)
StrLessFrom(a, b, i) ==
    IF i > Len(a) THEN i <= Len(b)
    ELSE IF i > Len(b) THEN FALSE
    ELSE IF Ord(CharAt(a, i)) < Ord(CharAt(b, i)) THEN TRUE
    ELSE IF Ord(CharAt(a, i)) > Ord(CharAt(b, i)) THEN FALSE
    ELSE StrLessFrom(a, b, i + 1)

\* a < b on Go strings (byte-wise)
StrLess(a, b) == StrLessFrom(a, b, 1)

RECURSIVE KeysInDecreasingOrder(_)
\* the keys of a set, greatest first
KeysInDecreasingOrder(S) ==
    IF S = {} THEN <<>>
    ELSE LET greatest == CHOOSE k \in S : \A j \in S \ {k} : StrLess(j, k)
         IN  <<greatest>> \o KeysInDecreasingOrder(S \ {greatest})

RECURSIVE SortedKeys(_)
\* the keys of a set in increasing order, as Header.Write sorts them
SortedKeys(S) ==
    IF S = {} THEN <<>>
    ELSE LET least == CHOOSE k \in S : \A j \in S \ {k} : StrLess(k, j)
         IN  <<least>> \o SortedKeys(S \ {least})

RECURSIVE TrimLeft(_)
TrimLeft(v) ==
    IF Len(v) > 0 /\ CharAt(v, 1) = " " THEN TrimLeft(SubSeq(v, 2, Len(v))) ELSE v

RECURSIVE TrimRight(_)
TrimRight(v) ==
    IF Len(v) > 0 /\ CharAt(v, Len(v)) = " "
    THEN TrimRight(SubSeq(v, 1, Len(v) - 1)) ELSE v

\* textproto.TrimString (the values of this model hold no tab, CR or LF)
TrimString(v) == TrimRight(TrimLeft(v))

\* "\r\n"
CRLF == <<13, 10>>

RECURSIVE HeaderLines(_, _, _)
\* the lines "key: value\r\n" of the values of one key
HeaderLines(key, values, i) ==
    IF i > Len(values) THEN <<>>
    ELSE Bytes(key) \o Bytes(": ") \o Bytes(TrimString(values[i])) \o CRLF
             \o HeaderLines(key, values, i + 1)

RECURSIVE HeaderWriteKeys(_, _, _)
HeaderWriteKeys(h, keys, i) ==
    IF i > Len(keys) THEN <<>>
    ELSE HeaderLines(keys[i], h[keys[i]], 1) \o HeaderWriteKeys(h, keys, i + 1)

\* Header.Write into an empty bytes.Buffer: the keys in sorted order
HeaderWrite(h) == HeaderWriteKeys(h, SortedKeys(DOMAIN h), 1)

----------------------------------------------------------------------------
(* grpcWebHandler.ServeHTTP *)

TextTokens == {ContentTypeGRPCWebText, ContentTypeGRPCWebTextProto}

\* isTextRequest: read from the content-type after the version fields are
\* forced and content-length is deleted, before content-type is rewritten
IsTextRequest(r) == HeaderGet(r.Header, headerContentType) \in TextTokens

\* isTextResponse: read from accept
IsTextResponse(r) == HeaderGet(r.Header, headerAccept) \in TextTokens

\* bodyCloser{base64.NewDecoder(base64.StdEncoding, req.Body), req.Body}
DecodedBody(body) == [body EXCEPT !.decoder = TRUE]

\* TranscodeRequest without the deletion of content-length
TranscodeRequestKeepLength(r) ==
    LET r1 == [r EXCEPT !.ProtoMajor = 2, !.ProtoMinor = 0]
        isTextRequest == IsTextRequest(r1)
        r2 == [r1 EXCEPT !.Header = HeaderSet(@, headerContentType, ContentTypeGRPC)]
        r3 == [r2 EXCEPT !.Header =
                  HeaderSet(HeaderSet(@, headerTE, "trailers"),
                            headerGRPCAcceptEncoding, "identity,deflate,gzip")]
    IN  IF isTextRequest THEN [r3 EXCEPT !.Body = DecodedBody(@)] ELSE r3

\* the request as the wrapped handler receives it
TranscodeRequest(r) ==
    LET r1 == [r EXCEPT !.ProtoMajor = 2, !.ProtoMinor = 0,
                        !.Header = HeaderDel(@, headerContentLength)]
        isTextRequest == IsTextRequest(r1)
        r2 == [r1 EXCEPT !.Header = HeaderSet(@, headerContentType, ContentTypeGRPC)]
        r3 == [r2 EXCEPT !.Header =
                  HeaderSet(HeaderSet(@, headerTE, "trailers"),
                            headerGRPCAcceptEncoding, "identity,deflate,gzip")]
    IN  IF isTextRequest THEN [r3 EXCEPT !.Body = DecodedBody(@)] ELSE r3

\* ResponseContentType chosen from the request's content-type, not its accept
ResponseContentTypeOfInput(r) ==
    IF IsTextRequest(r) THEN ContentTypeGRPCWebTextProto ELSE ContentTypeGRPCWebProto

\* contentType, the token the wrapper is constructed with
ResponseContentType(r) ==
    IF IsTextResponse(r) THEN ContentTypeGRPCWebTextProto ELSE ContentTypeGRPCWebProto

\* the response header keys the trailer scan can stop at
TrailerKeys(h) == {k \in DOMAIN h : ToLower(k) = headerTrailer}

RECURSIVE CollectTrailers(_, _, _, _)
\* the inner loop over the values of the trailer header
CollectTrailers(h, names, i, trailers) ==
    IF i > Len(names) THEN trailers
    ELSE LET field == HeaderGet(h, names[i])
         IN  CollectTrailers(h, names, i + 1,
                 IF field = "" THEN trailers
                 ELSE HeaderSet(trailers, names[i], field))

\* trailers, when the range over resp.Header() reaches the key header first
TrailersFor(h, header) == CollectTrailers(h, h[header], 1, EmptyHeader)

\* buf after trailers.Write(buf): Go ranges over a map in no fixed order, so
\* when several keys are the trailer header any one of them may be the one
\* the loop stops at; with none, trailers stays empty
TrailerBlocks(h) ==
    IF TrailerKeys(h) = {} THEN {HeaderWrite(EmptyHeader)}
    ELSE {HeaderWrite(TrailersFor(h, header)) : header \in TrailerKeys(h)}

\* BigEndianUint32 with the least significant byte first
LittleEndianUint32(n) ==
    << n % 256, (n \div (2^8)) % 256, (n \div (2^16)) % 256, (n \div (2^24)) % 256 >>

\* binary.Write(w, binary.BigEndian, uint32(n)): the low four bytes of n,
\* the most significant first
BigEndianUint32(n) ==
    << (n \div (2^24)) % 256, (n \div (2^16)) % 256, (n \div (2^8)) % 256, n % 256 >>

\* []byte{1 << 7}
TrailerMarker == << 2^7 >>

\* the three writes of the Trailer Frame, as the calls made on the wrapper
\* (bytes.Buffer.WriteTo makes no call for an empty buffer)
TrailerWrites(block) ==
    << TrailerMarker, BigEndianUint32(Len(block)) >>
        \o (IF Len(block) > 0 THEN <<block>> ELSE <<>>)

RECURSIVE WriteAll(_, _, _)
WriteAll(r, ps, i) ==
    IF i > Len(ps) THEN r ELSE WriteAll(Write(r, ps[i]), ps, i + 1)

----------------------------------------------------------------------------
(* What the environment may do *)

\* the content-type values a request arrives with ("" for no header)
RequestContentTypes ==
    { "", ContentTypeGRPC, ContentTypeGRPCWeb, ContentTypeGRPCWebProto,
      ContentTypeGRPCWebText, ContentTypeGRPCWebTextProto,
      "application/grpc+proto", "application/grpc-web-text+thrift",
      "Application/Grpc-Web", "application/json" }

\* the accept values a request arrives with ("" for no header)
RequestAccepts ==
    { "", ContentTypeGRPCWeb, ContentTypeGRPCWebText, ContentTypeGRPCWebTextProto }

\* the header collection of an arriving request: the transport stores every
\* key in canonical form
RequestHeader(contentType, accept, contentLength, te, acceptEncoding) ==
    LET h1 == IF contentType = "" THEN EmptyHeader
              ELSE HeaderSet(EmptyHeader, "Content-Type", contentType)
        h2 == IF accept = "" THEN h1 ELSE HeaderSet(h1, "Accept", accept)
        h3 == IF contentLength = "" THEN h2
              ELSE HeaderSet(h2, "Content-Length", contentLength)
        h4 == IF te = "" THEN h3 ELSE HeaderSet(h3, "Te", te)
    IN  IF acceptEncoding = "" THEN h4
        ELSE HeaderSet(h4, "Grpc-Accept-Encoding", acceptEncoding)

\* the byte slices the wrapped handler writes: one byte, the empty message
\* frame of EmptyCall, and the response frame of UnaryCall
Payloads ==
    { <<255>>,
      <<0, 0, 0, 0, 0>>,
      <<0, 0, 0, 0, 9, 10, 7, 18, 5, 0, 0, 0, 0, 0>> }

\* the status codes the wrapped handler sets
StatusCodes == {200}

\* the trailers the wrapped handler declares, each with the value it sets
\* ("" when it declares the name and sets no value)
HandlerTrailers ==
    { <<"Grpc-Status", "0">>, <<"Grpc-Status", "13">>,
      <<"Grpc-Message", "unexpected EOF">>, <<"Grpc-Message", "">> }

\* one request at a time: no second call of ServeHTTP
NoCalls == [calls |-> <<>>, wrappers |-> <<>>, sinks |-> <<>>]

\* the handler calls the wrapper from one goroutine: no call is under way
\* between two steps
NoGoroutines == [wpc |-> "idle", p |-> <<>>, fpc |-> "idle",
                 closed |-> FALSE, toClosed |-> FALSE]

\* a request body nobody has read from yet
NotRead == [done |-> FALSE, data |-> <<>>, err |-> "nil"]

----------------------------------------------------------------------------
(* The state machine *)

Init ==
    /\ pc \in {"root", "bridge"}
    /\ \E major \in {1, 2, 3}, minor \in {0, 1},
          ct \in RequestContentTypes, accept \in RequestAccepts,
          cl \in {"", "5"}, te \in {"", "deflate"}, gae \in {"", "br"} :
          req = [ProtoMajor |-> major, ProtoMinor |-> minor,
                 Header |-> RequestHeader(ct, accept, cl, te, gae),
                 Body |-> [decoder |-> FALSE, raw |-> <<>>, read |-> NotRead]]
    /\ \E closer \in BOOLEAN :
          resp = [header |-> EmptyHeader, calls |-> <<>>, closer |-> closer,
                  encoder |-> "nil", buf |-> <<>>, contentType |-> "",
                  encErr |-> "nil", writesLeft |-> -1, ret |-> "nil"]
    /\ invoked = [bridge |-> 0, grpc |-> 0, fallback |-> 0, wrapped |-> 0]
    /\ wlog = <<>>
    /\ ops = 0
    /\ concurrent = NoCalls
    /\ gor = NoGoroutines

\* RootTarget with the native gRPC case tested first
RootTargetGRPCFirst(r) ==
    IF IsGRPCRequest(r) THEN "grpc"
    ELSE IF IsGRPCWebRequest(r) THEN "bridge"
    ELSE "fallback"

\* the handler RootHandler returns picks its downstream handler
RootTarget(r) ==
    IF IsGRPCWebRequest(r) THEN "bridge"
    ELSE IF IsGRPCRequest(r) THEN "grpc"
    ELSE "fallback"

\* the function RootHandler returns, up to its call of the downstream handler
RootHandler ==
    /\ pc = "root"
    /\ pc' = RootTarget(req)
    /\ invoked' = [invoked EXCEPT ![RootTarget(req)] = @ + 1]
    /\ UNCHANGED <<req, resp, wlog, ops, concurrent, gor>>

\* ServeHTTP without the test of lines 68-71: the request is transcoded and
\* the sink wrapped whatever the request is
ServePassThroughTranscoded ==
    /\ pc = "bridge"
    /\ ~IsGRPCWebRequest(req)
    /\ req' = TranscodeRequest(req)
    /\ resp' = NewResponseWriter(resp, ResponseContentType(req'))
    /\ pc' = "handler"
    /\ invoked' = [invoked EXCEPT !.wrapped = @ + 1]
    /\ UNCHANGED <<wlog, ops, concurrent, gor>>

\* grpcWebHandler.ServeHTTP for a request that is not gRPC-Web: the wrapped
\* handler gets the request and the sink as they are
ServePassThrough ==
    /\ pc = "bridge"
    /\ ~IsGRPCWebRequest(req)
    /\ pc' = "passthrough"
    /\ invoked' = [invoked EXCEPT !.wrapped = @ + 1]
    /\ UNCHANGED <<req, resp, wlog, ops, concurrent, gor>>

\* grpcWebHandler.ServeHTTP for a gRPC-Web request, up to its call of the
\* wrapped handler
ServeHTTP ==
    /\ pc = "bridge"
    /\ IsGRPCWebRequest(req)
    /\ req' = TranscodeRequest(req)
    /\ resp' = NewResponseWriter(resp, ResponseContentType(req'))
    /\ pc' = "handler"
    /\ invoked' = [invoked EXCEPT !.wrapped = @ + 1]
    /\ UNCHANGED <<wlog, ops, concurrent, gor>>

\* the wrapped handler calls Write on the response it was given
HandlerWrite ==
    /\ pc = "handler" /\ ops < MaxOps
    /\ \E p \in Payloads :
          /\ resp' = Write(resp, p)
          /\ wlog' = Append(wlog, [by |-> "handler", p |-> p])
    /\ ops' = ops + 1
    /\ UNCHANGED <<pc, req, invoked, concurrent, gor>>

\* the wrapped handler calls WriteHeader
HandlerWriteHeader ==
    /\ pc = "handler" /\ ops < MaxOps
    /\ \E statusCode \in StatusCodes : resp' = WriteHeader(resp, statusCode)
    /\ ops' = ops + 1
    /\ UNCHANGED <<pc, req, invoked, wlog, concurrent, gor>>

\* the wrapped handler calls Flush
HandlerFlush ==
    /\ pc = "handler" /\ ops < MaxOps
    /\ resp' = Flush(resp)
    /\ ops' = ops + 1
    /\ UNCHANGED <<pc, req, invoked, wlog, concurrent, gor>>

\* the wrapped handler sets its own content-type through Header()
HandlerSetContentType ==
    /\ pc = "handler" /\ ops < MaxOps
    /\ resp' = [resp EXCEPT !.header = HeaderSet(@, headerContentType, ContentTypeGRPC)]
    /\ ops' = ops + 1
    /\ UNCHANGED <<pc, req, invoked, wlog, concurrent, gor>>

\* the wrapped handler declares a trailer through Header() and sets its value
HandlerTrailer ==
    /\ pc = "handler" /\ ops < MaxOps
    /\ \E t \in HandlerTrailers :
          LET declared == HeaderAdd(resp.header, "Trailer", t[1])
          IN  resp' = [resp EXCEPT !.header =
                          IF t[2] = "" THEN declared
                          ELSE HeaderSet(declared, t[1], t[2])]
    /\ ops' = ops + 1
    /\ UNCHANGED <<pc, req, invoked, wlog, concurrent, gor>>

\* the wrapped handler returns to ServeHTTP
HandlerReturn ==
    /\ pc = "handler"
    /\ pc' = "finalize"
    /\ UNCHANGED <<req, resp, invoked, wlog, ops, concurrent, gor>>

\* grpcWebHandler.ServeHTTP after the wrapped handler: the trailers are
\* collected, serialized and written as the Trailer Frame
WriteTrailers ==
    /\ pc = "finalize"
    /\ \E block \in TrailerBlocks(resp.header) :
          /\ resp' = WriteAll(resp, TrailerWrites(block), 1)
          /\ wlog' = wlog \o [i \in 1..Len(TrailerWrites(block)) |->
                                 [by |-> "bridge", p |-> TrailerWrites(block)[i]]]
    /\ pc' = "done"
    /\ UNCHANGED <<req, invoked, ops, concurrent, gor>>

\* the native gRPC handler, the fallback handler, or the wrapped handler of
\* a request passed through, returns
DownstreamReturn ==
    /\ pc \in {"grpc", "fallback", "passthrough"}
    /\ pc' = "done"
    /\ UNCHANGED <<req, resp, invoked, wlog, ops, concurrent, gor>>

Next ==
    \/ RootHandler
    \/ ServePassThrough
    \/ ServeHTTP
    \/ HandlerWrite
    \/ HandlerWriteHeader
    \/ HandlerFlush
    \/ HandlerSetContentType
    \/ HandlerTrailer
    \/ HandlerReturn
    \/ WriteTrailers
    \/ DownstreamReturn

Spec == Init /\ [][Next]_vars

----------------------------------------------------------------------------
(* What the properties speak of *)

\* the request was taken by the bridge as a gRPC-Web request: the wrapper
\* has been constructed (and the wrapped handler invoked with it)
Bridged == resp.contentType # ""

RECURSIVE Concat(_, _)
\* the concatenation of the byte slices ps[i..]
Concat(ps, i) == IF i > Len(ps) THEN <<>> ELSE ps[i] \o Concat(ps, i + 1)

\* the bytes of the Write calls the sink has accepted, in order
SinkBytes ==
    Concat([i \in 1..Len(resp.calls) |->
               IF resp.calls[i].op = "Write" /\ resp.calls[i].err = "nil"
               THEN resp.calls[i].data ELSE <<>>], 1)

\* the bytes the wrapped handler wrote to the wrapper, in order
HandlerBytes ==
    Concat([i \in 1..Len(wlog) |->
               IF wlog[i].by = "handler" THEN wlog[i].p ELSE <<>>], 1)

\* the bytes ServeHTTP itself wrote to the wrapper, in order
BridgeBytes ==
    Concat([i \in 1..Len(wlog) |->
               IF wlog[i].by = "bridge" THEN wlog[i].p ELSE <<>>], 1)

\* b is one Trailer Frame: 0x80, a big-endian length L, and L more bytes
IsTrailerFrame(b) ==
    /\ Len(b) >= 5
    /\ b[1] = 128
    /\ b[2] * (2^24) + b[3] * (2^16) + b[4] * (2^8) + b[5] = Len(b) - 5

IsSuffix(s, t) == Len(s) <= Len(t) /\ SubSeq(t, Len(t) - Len(s) + 1, Len(t)) = s

\* the 6-bit value of a StdEncoding character
DecodeChar(c) == CHOOSE v \in 0..63 : EncodeChar(v) = c

RECURSIVE DecodeRuns(_)
\* the bytes of a stream of padded base64 runs: every group of four
\* characters gives three bytes, or two or one when it ends in padding
DecodeRuns(c) ==
    IF Len(c) < 4 THEN <<>>
    ELSE LET v1 == DecodeChar(c[1])
             v2 == DecodeChar(c[2])
             b1 == v1 * 4 + v2 \div 16
             group ==
                 IF c[3] = PadChar THEN <<b1>>
                 ELSE LET v3 == DecodeChar(c[3])
                          b2 == (v2 % 16) * 16 + v3 \div 4
                      IN  IF c[4] = PadChar THEN <<b1, b2>>
                          ELSE <<b1, b2, (v3 % 4) * 64 + DecodeChar(c[4])>>
         IN  group \o DecodeRuns(SubSeq(c, 5, Len(c)))

\* what a client reading the sink's bytes in the response's mode obtains
ReceivedBytes ==
    IF resp.contentType = ContentTypeGRPCWebTextProto
    THEN DecodeRuns(SinkBytes) ELSE SinkBytes

\* the first value stored under exactly this key, "" when there is none
StoredValue(h, k) == IF k \in DOMAIN h /\ Len(h[k]) > 0 THEN h[k][1] ELSE ""

\* s starts with the characters of prefix
BeginsWith(s, prefix) ==
    /\ Len(s) >= Len(prefix)
    /\ \A i \in 1..Len(prefix) : CharAt(s, i) = CharAt(prefix, i)

WebTokens ==
    { "application/grpc-web", "application/grpc-web+proto",
      "application/grpc-web-text", "application/grpc-web-text+proto" }

----------------------------------------------------------------------------
(* The dispatcher and the classifiers *)

\* C3: the handler RootHandler returns invokes exactly one downstream handler,
\* once: the bridge for a gRPC-Web request (also when the request satisfies
\* the native classifier too), else the native gRPC handler for a native
\* gRPC request, else the fallback; and no later step invokes another one.
C3_ExactlyOneDownstream ==
    [][ /\ pc = "root" =>
              LET target == IF IsGRPCWebRequest(req) THEN "bridge"
                            ELSE IF IsGRPCRequest(req) THEN "grpc"
                            ELSE "fallback"
              IN  /\ pc' = target
                  /\ invoked' = [invoked EXCEPT ![target] = @ + 1]
        /\ pc # "root" =>
              /\ invoked'.bridge = invoked.bridge
              /\ invoked'.grpc = invoked.grpc
              /\ invoked'.fallback = invoked.fallback ]_vars

\* a request satisfying both classifiers has been given to the bridge
C3_Witness ==
    /\ pc = "bridge" /\ invoked.bridge = 1
    /\ invoked.grpc = 0 /\ invoked.fallback = 0
    /\ IsGRPCRequest(req)

\* C4: IsGRPCWebRequest is true exactly when the value stored under
\* content-type is one of the four gRPC-Web tokens, and the steps that only
\* classify the request leave it as it was.
C4_IsGRPCWebRequestExact ==
    /\ [](IsGRPCWebRequest(req)
             <=> StoredValue(req.Header, "Content-Type") \in WebTokens)
    /\ [][ (pc = "root" \/ (pc = "bridge" /\ ~IsGRPCWebRequest(req)))
              => req' = req ]_vars

\* a request with a longer content-type that begins with a gRPC-Web token
\* has been classified as not gRPC-Web
C4_Witness ==
    /\ pc = "fallback" /\ invoked.fallback = 1
    /\ StoredValue(req.Header, "Content-Type") = "application/grpc-web-text+thrift"

\* C5: IsGRPCRequest is true exactly when the protocol major version is 2 and
\* the content-type value begins with application/grpc; it is false for
\* protocol major version 1.
C5_IsGRPCRequestExact ==
    /\ IsGRPCRequest(req)
          <=> /\ req.ProtoMajor = 2
              /\ BeginsWith(StoredValue(req.Header, "Content-Type"), "application/grpc")
    /\ req.ProtoMajor = 1 => ~IsGRPCRequest(req)

\* a request with a suffixed native content-type over version 2 has been
\* given to the native gRPC handler
C5_Witness ==
    /\ pc = "grpc" /\ invoked.grpc = 1
    /\ StoredValue(req.Header, "Content-Type") = "application/grpc+proto"

\* C6 as stated: no request satisfies both classifiers.
C6_NeverBoth == ~(IsGRPCWebRequest(req) /\ IsGRPCRequest(req))

\* C6 amended: the two classifiers both match exactly for the requests of
\* protocol major version 2 whose content-type is one of the four gRPC-Web
\* tokens (each of which begins with application/grpc); for every other
\* request at most one matches.
C6_BothExactlyForWebOverHTTP2 ==
    (IsGRPCWebRequest(req) /\ IsGRPCRequest(req))
        <=> /\ req.ProtoMajor = 2
            /\ StoredValue(req.Header, "Content-Type") \in WebTokens

\* a text gRPC-Web request over version 2 arrives at the dispatcher
C6_Witness ==
    /\ pc = "root"
    /\ req.ProtoMajor = 2
    /\ StoredValue(req.Header, "Content-Type") = ContentTypeGRPCWebText
    /\ IsGRPCWebRequest(req) /\ IsGRPCRequest(req)

----------------------------------------------------------------------------
(* The request transcoder *)

\* C7: while the wrapped handler runs on a gRPC-Web request, the request has
\* protocol version 2.0, no content-length header, and exactly the values
\* application/grpc, trailers and identity,deflate,gzip under content-type,
\* te and grpc-accept-encoding.
C7_CanonicalRequest ==
    pc = "handler" =>
        /\ req.ProtoMajor = 2 /\ req.ProtoMinor = 0
        /\ \A k \in DOMAIN req.Header : ToLower(k) # "content-length"
        /\ "Content-Type" \in DOMAIN req.Header
        /\ req.Header["Content-Type"] = <<"application/grpc">>
        /\ "Te" \in DOMAIN req.Header
        /\ req.Header["Te"] = <<"trailers">>
        /\ "Grpc-Accept-Encoding" \in DOMAIN req.Header
        /\ req.Header["Grpc-Accept-Encoding"] = <<"identity,deflate,gzip">>

\* the wrapped handler has just been invoked by the bridge
C7_Witness == pc = "handler" /\ ops = 0 /\ invoked.wrapped = 1

\* C8: at the step that invokes the wrapped handler, the wrapper's output
\* token is the text one exactly when the accept value on entry is one of the
\* two text tokens (the binary one otherwise), and the body is behind a
\* base64 decoder exactly when the content-type value on entry is one of the
\* two text tokens: neither mode depends on the other header.
C8_ModesIndependent ==
    [][ (pc = "bridge" /\ pc' = "handler") =>
            /\ resp'.contentType =
                  IF StoredValue(req.Header, "Accept")
                        \in {"application/grpc-web-text", "application/grpc-web-text+proto"}
                  THEN "application/grpc-web-text+proto"
                  ELSE "application/grpc-web+proto"
            /\ req'.Body.decoder
                  <=> StoredValue(req.Header, "Content-Type")
                        \in {"application/grpc-web-text", "application/grpc-web-text+proto"}
      ]_vars

\* text in, binary out
C8_Witness ==
    /\ pc = "handler"
    /\ req.Body.decoder
    /\ resp.contentType = ContentTypeGRPCWebProto

----------------------------------------------------------------------------
(* The response transcoder *)

\* C1: for a gRPC-Web request, nothing but the wrapped handler writes to the
\* wrapper until the handler has returned; once ServeHTTP is done, the writes
\* to the wrapper are the handler's writes followed by the bridge's, and the
\* bridge's writes are exactly one Trailer Frame, starting with the marker.
C1_OneTrailerFrameLast ==
    /\ ~Bridged => wlog = <<>>
    /\ (Bridged /\ pc # "done") => \A i \in 1..Len(wlog) : wlog[i].by = "handler"
    /\ (Bridged /\ pc = "done") =>
          /\ \E k \in 0..Len(wlog) :
                /\ k < Len(wlog)
                /\ \A i \in 1..k : wlog[i].by = "handler"
                /\ \A i \in (k + 1)..Len(wlog) : wlog[i].by = "bridge"
                /\ wlog[k + 1].p = <<128>>
          /\ IsTrailerFrame(BridgeBytes)

\* ServeHTTP is done after a handler that wrote, flushed and declared a
\* trailer with a value
C1_Witness ==
    /\ Bridged /\ pc = "done"
    /\ Len(HandlerBytes) > 0
    /\ Len(BridgeBytes) > 5
    /\ \E i \in 1..Len(resp.calls) : resp.calls[i].op = "Flush"

\* C2: when ServeHTTP is done with a gRPC-Web request, what the sink has
\* received (base64-decoded in text mode) ends with the Trailer Frame the
\* bridge wrote: 0x80, the length L, and L bytes of trailer block.
C2_SinkEndsWithTrailerFrame ==
    (Bridged /\ pc = "done") =>
        /\ IsTrailerFrame(BridgeBytes)
        /\ IsSuffix(BridgeBytes, ReceivedBytes)

\* C9: every WriteHeader and Write call the sink receives finds the selected
\* gRPC-Web token under content-type.
C9_TokenAtEveryForward ==
    Bridged =>
        \A i \in 1..Len(resp.calls) :
            resp.calls[i].op \in {"WriteHeader", "Write"}
                => resp.calls[i].contentType = resp.contentType

\* C10: the first call the sink receives (WriteHeader, Write or Flush) finds
\* the selected gRPC-Web token under content-type.
C10_TokenBeforeFirstSend ==
    (Bridged /\ Len(resp.calls) > 0)
        => resp.calls[1].contentType = resp.contentType

----------------------------------------------------------------------------
(* The trailer block *)

\* the trailer block ServeHTTP wrote: what follows the marker and the length
TrailerBlock == SubSeq(BridgeBytes, 6, Len(BridgeBytes))

\* the names the handler declared under Trailer, in the order of declaration
DeclaredNames ==
    IF "Trailer" \in DOMAIN resp.header THEN resp.header["Trailer"] ELSE <<>>

\* the declared names that have a value of their own
NamesWithValue ==
    { CanonicalMIMEHeaderKey(DeclaredNames[i]) : i \in 1..Len(DeclaredNames) }
        \cap { k \in DOMAIN resp.header : HeaderGet(resp.header, k) # "" }

\* where name is first declared
FirstDeclared(name) ==
    CHOOSE i \in 1..Len(DeclaredNames) :
        /\ CanonicalMIMEHeaderKey(DeclaredNames[i]) = name
        /\ \A j \in 1..(i - 1) : CanonicalMIMEHeaderKey(DeclaredNames[j]) # name

\* the positions in block at which a line "name: ..." starts
LineStarts(block, name) ==
    LET label == Bytes(name) \o Bytes(": ")
    IN  { i \in 1..Len(block) :
            /\ i = 1 \/ (i > 2 /\ SubSeq(block, i - 2, i - 1) = CRLF)
            /\ i + Len(label) - 1 <= Len(block)
            /\ SubSeq(block, i, i + Len(label) - 1) = label }

\* the line of a comes before the line of b, and each has exactly one line
LineBefore(block, a, b) ==
    /\ Cardinality(LineStarts(block, a)) = 1
    /\ Cardinality(LineStarts(block, b)) = 1
    /\ \A i \in LineStarts(block, a) : \A j \in LineStarts(block, b) : i < j

\* C11 as stated: the lines of the trailer block follow the order in which
\* the handler declared the names.
C11_DeclarationOrder ==
    (Bridged /\ pc = "done") =>
        \A a, b \in NamesWithValue :
            FirstDeclared(a) < FirstDeclared(b) => LineBefore(TrailerBlock, a, b)

\* C11: the lines of the trailer block are in increasing byte-wise order of
\* the trailer names, whatever the order in which the handler declared them.
C11_SortedOrder ==
    (Bridged /\ pc = "done") =>
        \A a, b \in NamesWithValue :
            StrLess(a, b) => LineBefore(TrailerBlock, a, b)

\* ServeHTTP is done after a handler that declared Grpc-Status before
\* Grpc-Message, both with a value
C11_Witness ==
    /\ Bridged /\ pc = "done"
    /\ {"Grpc-Status", "Grpc-Message"} \subseteq NamesWithValue
    /\ FirstDeclared("Grpc-Status") < FirstDeclared("Grpc-Message")

----------------------------------------------------------------------------
(* Trailer headers stored under keys of any case *)

\* h[key] = values: an assignment to the map, the key taken as it is
HeaderAssign(h, key, values) ==
    [x \in DOMAIN h \cup {key} |-> IF x = key THEN values ELSE h[x]]

\* the wrapped handler declares a trailer by assigning to the map Header()
\* returns, under the key "trailer", and sets the value of the trailer
HandlerRawTrailer ==
    /\ pc = "handler" /\ ops < MaxOps
    /\ \E t \in HandlerTrailers :
          LET declared == HeaderAssign(resp.header, headerTrailer, <<t[1]>>)
          IN  resp' = [resp EXCEPT !.header =
                          IF t[2] = "" THEN declared
                          ELSE HeaderSet(declared, t[1], t[2])]
    /\ ops' = ops + 1
    /\ UNCHANGED <<pc, req, invoked, wlog, concurrent, gor>>

NextRawKeys ==
    \/ Next
    \/ HandlerRawTrailer

\* the bridge with a handler that also writes to the header map directly
SpecRawKeys == Init /\ [][NextRawKeys]_vars

\* the names listed under the response headers named trailer, in any case
ListedNames ==
    UNION { { CanonicalMIMEHeaderKey(resp.header[k][i]) :
                  i \in 1..Len(resp.header[k]) } : k \in TrailerKeys(resp.header) }

\* the line "name: value" followed by CRLF
TrailerLine(name, value) == Bytes(name) \o Bytes(": ") \o Bytes(value) \o CRLF

\* block has a line for name with this value
HasLine(block, name, value) ==
    \E i \in LineStarts(block, name) :
        /\ i + Len(TrailerLine(name, value)) - 1 <= Len(block)
        /\ SubSeq(block, i, i + Len(TrailerLine(name, value)) - 1)
               = TrailerLine(name, value)

\* C12: once ServeHTTP is done, one Trailer Frame has been written whose
\* block has exactly one line for every name listed under a header named
\* trailer (in any case) that has a non-empty value, no line for a listed
\* name without one, and is empty when no listed name has a value.
C12_OneLinePerListedName ==
    (Bridged /\ pc = "done") =>
        /\ IsTrailerFrame(BridgeBytes)
        /\ \A name \in ListedNames :
              IF HeaderGet(resp.header, name) # ""
              THEN /\ Cardinality(LineStarts(TrailerBlock, name)) = 1
                   /\ HasLine(TrailerBlock, name, HeaderGet(resp.header, name))
              ELSE LineStarts(TrailerBlock, name) = {}
        /\ (\A name \in ListedNames : HeaderGet(resp.header, name) = "")
              => TrailerBlock = <<>>

----------------------------------------------------------------------------
(* A streaming handler: writes and flushes *)

MaxStreamOps == 4

\* the bridge is handed a gRPC-Web request
InitStream == Init /\ pc = "bridge" /\ IsGRPCWebRequest(req)

\* the handler of a streaming call writes a message
StreamWrite ==
    /\ pc = "handler" /\ ops < MaxStreamOps
    /\ \E p \in Payloads :
          /\ resp' = Write(resp, p)
          /\ wlog' = Append(wlog, [by |-> "handler", p |-> p])
    /\ ops' = ops + 1
    /\ UNCHANGED <<pc, req, invoked, concurrent, gor>>

\* the handler of a streaming call flushes
StreamFlush ==
    /\ pc = "handler" /\ ops < MaxStreamOps
    /\ resp' = Flush(resp)
    /\ ops' = ops + 1
    /\ UNCHANGED <<pc, req, invoked, wlog, concurrent, gor>>

NextStream ==
    \/ ServeHTTP
    \/ StreamWrite
    \/ StreamFlush
    \/ HandlerReturn
    \/ WriteTrailers

\* the bridge serving a call whose handler writes and flushes in any order
SpecStream == InitStream /\ [][NextStream]_vars

RECURSIVE RunsFrom(_, _, _)
\* the bytes the sink received before each of its Flush calls and since the
\* Flush call before, one entry for every Flush call among calls[i..]
RunsFrom(calls, i, run) ==
    IF i > Len(calls) THEN <<>>
    ELSE IF calls[i].op = "Flush" THEN <<run>> \o RunsFrom(calls, i + 1, <<>>)
    ELSE IF calls[i].op = "Write" THEN RunsFrom(calls, i + 1, run \o calls[i].data)
    ELSE RunsFrom(calls, i + 1, run)

FlushRuns == RunsFrom(resp.calls, 1, <<>>)

\* the response is in text mode
TextMode == resp.contentType = ContentTypeGRPCWebTextProto

----------------------------------------------------------------------------
(* A sink whose connection goes away *)

\* the numbers of Write calls the sink may still accept once the handler
\* has returned: the marker, the length and the block are three
WritesBeforeFailure == {0, 1, 2}

\* the client goes away while ServeHTTP is about to emit the Trailer Frame:
\* after n more Write calls the sink's Write returns an error
SinkBreaks ==
    /\ pc = "finalize"
    /\ resp.writesLeft = -1
    /\ \E n \in WritesBeforeFailure : resp' = [resp EXCEPT !.writesLeft = n]
    /\ UNCHANGED <<pc, req, invoked, wlog, ops, concurrent, gor>>

NextFail ==
    \/ Next
    \/ SinkBreaks

\* the bridge writing to a sink that may fail during the Trailer Frame
SpecFail == Init /\ [][NextFail]_vars

\* the sink's Write calls that returned an error
FailedWrites ==
    { i \in 1..Len(resp.calls) :
          resp.calls[i].op = "Write" /\ resp.calls[i].err # "nil" }

\* C14: when a write to the sink fails while ServeHTTP emits the Trailer
\* Frame, ServeHTTP does not end as if nothing had happened: the caller of
\* the bridge gets the error.  ServeHTTP has no result and its only way to
\* hand an error to its caller is not to return normally, so the claim
\* requires that after such a failure ServeHTTP never reaches its return.
C14_WriteErrorReachesCaller ==
    (Bridged /\ FailedWrites # {}) => pc # "done"

----------------------------------------------------------------------------
(* The request body and the handler that reads it *)

\* c is a character of the StdEncoding alphabet
InAlphabet(c) == \E v \in 0..63 : EncodeChar(v) = c

\* the four characters q are a quantum the decoder accepts: padding only in
\* the third and fourth place, and no data character after padding
ValidQuantum(q) ==
    /\ InAlphabet(q[1]) /\ InAlphabet(q[2])
    /\ q[3] = PadChar \/ InAlphabet(q[3])
    /\ q[4] = PadChar \/ InAlphabet(q[4])
    /\ q[3] = PadChar => q[4] = PadChar

RECURSIVE DecoderRead(_, _)
\* reading base64.NewDecoder(base64.StdEncoding, body) to its end, as
\* ioutil.ReadAll does: whole quanta are decoded; input that ends inside a
\* quantum gives io.ErrUnexpectedEOF, a character that cannot be there, or
\* anything after padding, gives a CorruptInputError; err is "nil" when the
\* input ends cleanly
DecoderRead(c, data) ==
    IF Len(c) = 0 THEN [done |-> TRUE, data |-> data, err |-> "nil"]
    ELSE IF Len(c) < 4 THEN [done |-> TRUE, data |-> data, err |-> "unexpected EOF"]
    ELSE LET q == SubSeq(c, 1, 4)
         IN  IF ~ValidQuantum(q) \/ (q[4] = PadChar /\ Len(c) > 4)
             THEN [done |-> TRUE, data |-> data, err |-> "illegal base64 data"]
             ELSE DecoderRead(SubSeq(c, 5, Len(c)), data \o DecodeRuns(q))

\* what the handler gets when it reads req.Body to its end: bodyCloser hands
\* on what its Reader returns
ReadBody(body) ==
    IF body.decoder THEN DecoderRead(body.raw, <<>>)
    ELSE [done |-> TRUE, data |-> body.raw, err |-> "nil"]

\* the bodies a client sends: none, a whole padded base64 message (five zero
\* bytes), and the same cut short so that no padding is left
RequestBodies ==
    { <<>>, Bytes("AAAAAAA="), Bytes("AAAAAAA"), Bytes("AAAAAA"), Bytes("AAAA") }

\* a gRPC-Web request with a body arrives at the bridge
InitRead ==
    /\ pc = "bridge"
    /\ \E ct \in {ContentTypeGRPCWeb, ContentTypeGRPCWebText, ContentTypeGRPCWebTextProto},
          accept \in RequestAccepts, body \in RequestBodies :
          req = [ProtoMajor |-> 1, ProtoMinor |-> 1,
                 Header |-> RequestHeader(ct, accept, "", "", ""),
                 Body |-> [decoder |-> FALSE, raw |-> body, read |-> NotRead]]
    /\ resp = [header |-> EmptyHeader, calls |-> <<>>, closer |-> FALSE,
               encoder |-> "nil", buf |-> <<>>, contentType |-> "",
               encErr |-> "nil", writesLeft |-> -1, ret |-> "nil"]
    /\ invoked = [bridge |-> 0, grpc |-> 0, fallback |-> 0, wrapped |-> 0]
    /\ wlog = <<>>
    /\ ops = 0
    /\ concurrent = NoCalls
    /\ gor = NoGoroutines

\* the wrapped handler reads the request body to its end
HandlerRead ==
    /\ pc = "handler"
    /\ ~req.Body.read.done
    /\ req' = [req EXCEPT !.Body.read = ReadBody(req.Body)]
    /\ UNCHANGED <<pc, resp, invoked, wlog, ops, concurrent, gor>>

NextRead ==
    \/ ServeHTTP
    \/ HandlerRead
    \/ HandlerWrite
    \/ HandlerTrailer
    \/ HandlerReturn
    \/ WriteTrailers

\* the bridge around a handler that reads the body, writes and declares
\* trailers
SpecRead == InitRead /\ [][NextRead]_vars

\* c is whole padded base64: quanta of four characters, padded at the end
CompletePadded(c) ==
    /\ Len(c) % 4 = 0
    /\ \A i \in 1..Len(c) : c[i] = PadChar \/ InAlphabet(c[i])
    /\ c = Encode(DecodeRuns(c))

\* C15: in text input mode, when the body the client sent is not whole
\* padded base64, the handler's read of the body ends in an error, the one
\* the decoder gave; and when the handler then writes no data, the response
\* the client receives is exactly one Trailer Frame, with a line for every
\* trailer the handler declared and gave a value.
C15_MalformedTextBody ==
    ( /\ Bridged /\ req.Body.decoder
      /\ ~CompletePadded(req.Body.raw)
      /\ req.Body.read.done )
    => /\ req.Body.read.err \in {"unexpected EOF", "illegal base64 data"}
       /\ req.Body.read = DecoderRead(req.Body.raw, <<>>)
       /\ (pc = "done" /\ HandlerBytes = <<>>) =>
             /\ IsTrailerFrame(BridgeBytes)
             /\ ReceivedBytes = BridgeBytes
             /\ \A name \in NamesWithValue :
                   HasLine(TrailerBlock, name, HeaderGet(resp.header, name))

----------------------------------------------------------------------------
(* Two requests served at the same time by one grpcWebHandler.  The       *)
(* handler value holds only the wrapped handler; every call of ServeHTTP  *)
(* has its own request and sink and constructs its own wrapper.           *)

MaxConcOps == 2

\* the calls of ServeHTTP under way
Requests == {1, 2}

\* the wrapper's own fields (its wrapped field names the sink of a call)
\* joined with the fields of that sink: the record Write and Flush work on
Join(w, s) ==
    [header |-> s.header, calls |-> s.calls, closer |-> s.closer,
     writesLeft |-> s.writesLeft, ret |-> s.ret,
     encoder |-> w.encoder, buf |-> w.buf, contentType |-> w.contentType,
     encErr |-> w.encErr]

WrapperPart(r, wrapped) ==
    [encoder |-> r.encoder, buf |-> r.buf, contentType |-> r.contentType,
     encErr |-> r.encErr, wrapped |-> wrapped]

SinkPart(r) ==
    [header |-> r.header, calls |-> r.calls, closer |-> r.closer,
     writesLeft |-> r.writesLeft, ret |-> r.ret]

\* no wrapper constructed yet
NoWrapper ==
    [encoder |-> "nil", buf |-> <<>>, contentType |-> "", encErr |-> "nil",
     wrapped |-> 0]

\* the sink a call of ServeHTTP is given
NewSink ==
    [header |-> EmptyHeader, calls |-> <<>>, closer |-> FALSE,
     writesLeft |-> -1, ret |-> "nil"]

\* one wrapper object that every call of ServeHTTP reuses
WrapperOfShared(i) == 1

\* the wrapper the call i of ServeHTTP constructs: a new one for every call
WrapperOf(i) == i

\* the wrapper id as the handler of a call sees it, with the sink behind it
View(c, id) == Join(c.wrappers[id], c.sinks[c.wrappers[id].wrapped])

\* the wrapper id and the sink behind it after a call that left them as r
Store(c, id, r) ==
    [c EXCEPT !.wrappers[id] = WrapperPart(r, @.wrapped),
              !.sinks[c.wrappers[id].wrapped] = SinkPart(r)]

\* what the handlers of the two calls write
ConcPayloads == { <<255>>, <<0, 0, 0, 0, 0>> }

\* two gRPC-Web requests have arrived, each at its own call of ServeHTTP,
\* each from a binary-mode or a text-mode client
InitTwo ==
    /\ \E r0 \in [Requests ->
                    { [ProtoMajor |-> 1, ProtoMinor |-> 1,
                       Header |-> RequestHeader(ct, ct, "5", "", ""),
                       Body |-> [decoder |-> FALSE, raw |-> <<>>, read |-> NotRead]] :
                         ct \in {ContentTypeGRPCWeb, ContentTypeGRPCWebText} }] :
          concurrent =
              [calls    |-> [i \in Requests |->
                                [pc |-> "bridge", req |-> r0[i], req0 |-> r0[i],
                                 w |-> 0, ops |-> 0, hist |-> <<>>]],
               wrappers |-> [i \in Requests |-> NoWrapper],
               sinks    |-> [i \in Requests |-> NewSink]]
    /\ gor = NoGoroutines
    /\ pc = "concurrent" /\ req = <<>> /\ resp = <<>>
    /\ invoked = <<>> /\ wlog = <<>> /\ ops = 0

\* call i of ServeHTTP, up to its call of the wrapped handler
ConcServeHTTP(i) ==
    LET c   == concurrent.calls[i]
        r   == TranscodeRequest(c.req)
        id  == WrapperOf(i)
        new == NewResponseWriter(Join(NoWrapper, concurrent.sinks[i]),
                                 ResponseContentType(r))
    IN  /\ c.pc = "bridge"
        /\ IsGRPCWebRequest(c.req)
        /\ concurrent' =
              [concurrent EXCEPT
                  !.calls[i]     = [c EXCEPT !.pc = "handler", !.req = r, !.w = id],
                  !.wrappers[id] = WrapperPart(new, i)]
        /\ UNCHANGED <<pc, req, resp, invoked, wlog, ops, gor>>

\* the handler of call i writes to the wrapper it was given
ConcWrite(i) ==
    LET c == concurrent.calls[i]
    IN  /\ c.pc = "handler" /\ c.ops < MaxConcOps
        /\ \E p \in ConcPayloads :
              concurrent' =
                  [Store(concurrent, c.w, Write(View(concurrent, c.w), p))
                      EXCEPT !.calls[i].ops  = @ + 1,
                             !.calls[i].hist = Append(@, [op |-> "Write", p |-> p])]
        /\ UNCHANGED <<pc, req, resp, invoked, wlog, ops, gor>>

\* the handler of call i flushes the wrapper it was given
ConcFlush(i) ==
    LET c == concurrent.calls[i]
    IN  /\ c.pc = "handler" /\ c.ops < MaxConcOps
        /\ concurrent' =
              [Store(concurrent, c.w, Flush(View(concurrent, c.w)))
                  EXCEPT !.calls[i].ops  = @ + 1,
                         !.calls[i].hist = Append(@, [op |-> "Flush", p |-> <<>>])]
        /\ UNCHANGED <<pc, req, resp, invoked, wlog, ops, gor>>

\* the handler of call i returns and ServeHTTP writes the Trailer Frame
ConcWriteTrailers(i) ==
    LET c == concurrent.calls[i]
        r == View(concurrent, c.w)
    IN  /\ c.pc = "handler"
        /\ \E block \in TrailerBlocks(r.header) :
              concurrent' =
                  [Store(concurrent, c.w, WriteAll(r, TrailerWrites(block), 1))
                      EXCEPT !.calls[i].pc = "done"]
        /\ UNCHANGED <<pc, req, resp, invoked, wlog, ops, gor>>

NextTwo ==
    \E i \in Requests :
        \/ ConcServeHTTP(i)
        \/ ConcWrite(i)
        \/ ConcFlush(i)
        \/ ConcWriteTrailers(i)

\* two calls of ServeHTTP on one grpcWebHandler, their steps interleaved
SpecTwo == InitTwo /\ [][NextTwo]_vars

RECURSIVE Replay(_, _, _)
\* the wrapper and sink r after the handler calls hist[k..] made on r alone
Replay(r, hist, k) ==
    IF k > Len(hist) THEN r
    ELSE Replay(IF hist[k].op = "Write" THEN Write(r, hist[k].p) ELSE Flush(r),
                hist, k + 1)

\* the wrapper and sink of call i, had the request been served on its own
\* with the same handler calls
Alone(i) ==
    LET c == concurrent.calls[i]
        r == Replay(NewResponseWriter(Join(NoWrapper, NewSink),
                        ResponseContentType(TranscodeRequest(c.req0))),
                    c.hist, 1)
    IN  IF c.pc = "done" THEN WriteAll(r, TrailerWrites(<<>>), 1) ELSE r

\* C16: two gRPC-Web requests served at once through one bridge handler do
\* not interfere: at every moment the request, the sink and the wrapper of
\* each call are what they would be had the call been served on its own.
C16_NoInterference ==
    \A i \in Requests :
        LET c == concurrent.calls[i]
        IN  IF c.pc = "bridge"
            THEN c.req = c.req0 /\ concurrent.sinks[i] = NewSink
            ELSE /\ c.req = TranscodeRequest(c.req0)
                 /\ concurrent.sinks[i] = SinkPart(Alone(i))
                 /\ concurrent.wrappers[c.w] = WrapperPart(Alone(i), i)

\* both calls are done, one in text mode and one in binary mode, and both
\* handlers wrote while the other call was under way
C16_Witness ==
    /\ \A i \in Requests : concurrent.calls[i].pc = "done"
    /\ \A i \in Requests : \E k \in 1..Len(concurrent.calls[i].hist) :
          concurrent.calls[i].hist[k].op = "Write"
    /\ concurrent.wrappers[1].contentType = ContentTypeGRPCWebTextProto
    /\ concurrent.wrappers[2].contentType = ContentTypeGRPCWebProto

----------------------------------------------------------------------------
(* The end of the response, binary-mode flushes, and requests passed on *)

\* C17: when ServeHTTP returns in text mode, the encoder has been torn
\* down: the wrapper has no encoder and no byte is held back in one.
C17_EncoderTornDown ==
    (Bridged /\ TextMode /\ pc = "done") =>
        /\ resp.encoder = "nil"
        /\ resp.buf = <<>>

\* C18: in binary mode the bridge never closes the sink, and a Flush never
\* resets the write target: once the handler has written, the wrapper's
\* write target stays the sink, whether or not the sink has a Close method.
C18_BinaryFlushKeepsTarget ==
    (Bridged /\ ~TextMode) =>
        /\ \A i \in 1..Len(resp.calls) : resp.calls[i].op # "Close"
        /\ wlog # <<>> => resp.encoder = "wrapped"

\* C19: a step of the bridge on a request that is not gRPC-Web hands the
\* request to the wrapped handler, once, and leaves the request, the sink,
\* its header and the wrapper's write log as they are; while the wrapped
\* handler runs and returns, the bridge does nothing more to them.
C19_PassThroughUntouched ==
    [][ /\ (pc = "bridge" /\ ~IsGRPCWebRequest(req)) =>
              /\ pc' = "passthrough"
              /\ invoked'.wrapped = invoked.wrapped + 1
              /\ req' = req /\ resp' = resp /\ wlog' = wlog
        /\ pc = "passthrough" =>
              /\ pc' = "done"
              /\ invoked' = invoked
              /\ req' = req /\ resp' = resp /\ wlog' = wlog
      ]_vars

\* a request with another content-type, with a content-length, has gone
\* through Handler's handler and come back
C19_Witness ==
    /\ pc = "done" /\ ~Bridged
    /\ invoked = [bridge |-> 0, grpc |-> 0, fallback |-> 0, wrapped |-> 1]
    /\ HeaderGet(req.Header, headerContentType) = ContentTypeGRPC
    /\ HeaderGet(req.Header, headerContentLength) = "5"
    /\ req.ProtoMajor = 1
    /\ resp.calls = <<>> /\ DOMAIN resp.header = {}

----------------------------------------------------------------------------
(* A handler that calls Write and Flush from two goroutines.  The wrapper  *)
(* has no lock: the goroutines' reads and writes of w.encoder interleave.  *)
(* gor.wpc is where the writing goroutine is ("idle", "call": past the     *)
(* test of line 173 and before the call of line 183, "panic"), gor.fpc     *)
(* where the flushing one is ("idle", "close", "clear", "flush"),          *)
(* gor.closed whether Close has been called on the encoder now installed,  *)
(* gor.toClosed whether a Write has reached an encoder after its Close.    *)

MaxRaceOps == 3

\* a gRPC-Web request from a text-mode client arrives at the bridge
InitRace == InitStream /\ IsTextResponse(req)

\* Write, lines 173-181: w.encoder is tested and, when nil, the header is
\* set and an encoder installed
WriteEnter ==
    /\ pc = "handler" /\ ops < MaxRaceOps
    /\ gor.wpc = "idle"
    /\ \E p \in ConcPayloads :
          /\ gor' = [gor EXCEPT !.wpc = "call", !.p = p,
                                !.closed = IF resp.encoder = "nil" THEN FALSE ELSE @]
          /\ wlog' = Append(wlog, [by |-> "handler", p |-> p])
    /\ resp' = IF resp.encoder = "nil" THEN InstallEncoder(resp) ELSE resp
    /\ ops' = ops + 1
    /\ UNCHANGED <<pc, req, invoked, concurrent>>

\* Write, line 183: w.encoder is read again and its Write called; a method
\* call on a nil interface value panics
WriteCall ==
    /\ pc = "handler"
    /\ gor.wpc = "call"
    /\ IF resp.encoder = "nil"
       THEN /\ gor' = [gor EXCEPT !.wpc = "panic"]
            /\ UNCHANGED resp
       ELSE /\ resp' = IF resp.encoder = "base64" THEN EncoderWrite(resp, gor.p)
                       ELSE SinkWrite(resp, gor.p)
            /\ gor' = [gor EXCEPT !.wpc = "idle", !.p = <<>>,
                                  !.toClosed = @ \/ gor.closed]
    /\ UNCHANGED <<pc, req, invoked, wlog, ops, concurrent>>

\* Flush, line 192: the type assertion on w.encoder
FlushAssert ==
    /\ pc = "handler" /\ ops < MaxRaceOps
    /\ gor.fpc = "idle"
    /\ gor' = [gor EXCEPT !.fpc = IF IsWriteCloser(resp) THEN "close" ELSE "flush"]
    /\ ops' = ops + 1
    /\ UNCHANGED <<pc, req, resp, invoked, wlog, concurrent>>

\* Flush, line 193: wc.Close()
FlushClose ==
    /\ pc = "handler"
    /\ gor.fpc = "close"
    /\ resp' = IF resp.encoder = "base64" THEN EncoderClose(resp) ELSE SinkClose(resp)
    /\ gor' = [gor EXCEPT !.fpc = "clear", !.closed = TRUE]
    /\ UNCHANGED <<pc, req, invoked, wlog, ops, concurrent>>

\* Flush, line 194: w.encoder = nil; the encoder goes with what it holds
FlushClear ==
    /\ pc = "handler"
    /\ gor.fpc = "clear"
    /\ resp' = [resp EXCEPT !.encoder = "nil"]
    /\ gor' = [gor EXCEPT !.fpc = "flush"]
    /\ UNCHANGED <<pc, req, invoked, wlog, ops, concurrent>>

\* Flush, line 197: the sink is flushed
FlushSink ==
    /\ pc = "handler"
    /\ gor.fpc = "flush"
    /\ resp' = SinkFlush(resp)
    /\ gor' = [gor EXCEPT !.fpc = "idle"]
    /\ UNCHANGED <<pc, req, invoked, wlog, ops, concurrent>>

NextRace ==
    \/ ServeHTTP
    \/ WriteEnter
    \/ WriteCall
    \/ FlushAssert
    \/ FlushClose
    \/ FlushClear
    \/ FlushSink

\* the bridge around a handler whose goroutines write and flush at once
SpecRace == InitRace /\ [][NextRace]_vars

\* C20: when the handler calls Write and Flush concurrently in text mode,
\* Write never calls through an encoder Flush has cleared, no byte is
\* written to an encoder that has been closed, and no byte is lost: when
\* both calls are over and no encoder is installed, the sink holds, in
\* base64, every byte the handler wrote.
C20_WriteFlushRaceFree ==
    (Bridged /\ TextMode) =>
        /\ gor.wpc # "panic"
        /\ ~gor.toClosed
        /\ (gor.wpc = "idle" /\ gor.fpc = "idle" /\ resp.encoder = "nil")
               => DecodeRuns(SinkBytes) = HandlerBytes

====
